---- MODULE Spec2Model ----
(***************************************************************************)
(* Task Progress Tracker (src/script.js): the in-memory task list, its     *)
(* localStorage snapshot, the rendered cards, the asynchronous file        *)
(* import and the handlers that change them.                               *)
(***************************************************************************)
EXTENDS Integers, Sequences, FiniteSets, TLC

(***************************************************************************)
(* Bounds of the model.                                                    *)
(***************************************************************************)
MaxTasks == 2
MaxNow == 3
MaxFail == 1
MaxReads == 1

(***************************************************************************)
(* JavaScript values, as far as the program meets them.  k is the kind:    *)
(* "num" (a finite integer n), "inf" (Infinity), "nan", "str" (the string  *)
(* s), "null", "undef".  The same shape holds a JSON token of a text:      *)
(* "num", "str", "null", "big" (a number literal beyond the double range,  *)
(* such as 1e999) and "absent" (the property is not written).              *)
(***************************************************************************)
Num(n) == [k |-> "num", n |-> n, s |-> ""]
Str(s) == [k |-> "str", n |-> 0, s |-> s]
Null == [k |-> "null", n |-> 0, s |-> ""]
Undef == [k |-> "undef", n |-> 0, s |-> ""]
Inf == [k |-> "inf", n |-> 0, s |-> ""]
NaN == [k |-> "nan", n |-> 0, s |-> ""]
Big == [k |-> "big", n |-> 0, s |-> ""]
Absent == [k |-> "absent", n |-> 0, s |-> ""]

\* ToBoolean: what `!x`, `x && y` and `if (x)` look at.
Truthy(v) ==
    CASE v.k = "num" -> v.n # 0
      [] v.k = "str" -> v.s # ""
      [] v.k = "inf" -> TRUE
      [] OTHER -> FALSE

\* typeof v === 'number'
TypeofNumber(v) == v.k \in {"num", "inf", "nan"}

\* a === b (NaN equals nothing, itself included)
StrictEq(a, b) == a.k # "nan" /\ a = b

\* a < b on numbers; a comparison with NaN is false
Less(a, b) ==
    CASE a.k = "nan" \/ b.k = "nan" -> FALSE
      [] a.k = "num" /\ b.k = "num" -> a.n < b.n
      [] a.k = "num" /\ b.k = "inf" -> TRUE
      [] OTHER -> FALSE

\* a + b on numbers
Plus(a, b) ==
    CASE a.k = "nan" \/ b.k = "nan" -> NaN
      [] a.k = "inf" \/ b.k = "inf" -> Inf
      [] OTHER -> Num(a.n + b.n)

MathMin(a, b) ==
    CASE a.k = "nan" \/ b.k = "nan" -> NaN
      [] Less(b, a) -> b
      [] OTHER -> a

MathMax(a, b) ==
    CASE a.k = "nan" \/ b.k = "nan" -> NaN
      [] Less(a, b) -> b
      [] OTHER -> a

\* `${v}`: the string a template literal makes of a value
ToStr(v) ==
    CASE v.k = "num" -> ToString(v.n)
      [] v.k = "str" -> v.s
      [] v.k = "inf" -> "Infinity"
      [] v.k = "nan" -> "NaN"
      [] v.k = "null" -> "null"
      [] OTHER -> "undefined"

\* The integers parseInt is asked to read in this model.
ParseRange == -9 .. 9

\* parseInt(s): the leading integer of the text, NaN when there is none.
\* "1.5" and "2x" have a leading integer; "", " ", "x" and "Infinity" have none.
ParseInt(s) ==
    IF \E n \in ParseRange : ToString(n) = s
    THEN Num(CHOOSE n \in ParseRange : ToString(n) = s)
    ELSE CASE s = "1.5" -> Num(1)
           [] s = "2x" -> Num(2)
           [] OTHER -> NaN

\* s.trim()
Trim(s) ==
    CASE s = " " -> ""
      [] s = " A" -> "A"
      [] s = "B " -> "B"
      [] OTHER -> s

\* new Date().toISOString() at clock reading t (milliseconds)
ISOString(t) == Str("T" \o ToString(t))

(***************************************************************************)
(* JSON.  A text is [t, items]: t = "none" (no text: getItem gave null),   *)
(* "garbage" (not JSON), "object" (JSON, but no array) or "array", whose   *)
(* items are objects with the six properties of a task as tokens.          *)
(***************************************************************************)
Fields == {"id", "name", "target", "current", "createdAt", "lastModified"}

NoText == [t |-> "none", items |-> << >>]
Garbage == [t |-> "garbage", items |-> << >>]
ObjectText == [t |-> "object", items |-> << >>]
ArrayText(items) == [t |-> "array", items |-> items]

\* JSON.stringify of one value: Infinity and NaN are written as null, an
\* undefined property is not written.
StringifyValue(v) ==
    CASE v.k \in {"inf", "nan"} -> Null
      [] v.k = "undef" -> Absent
      [] OTHER -> v

\* JSON.parse of one token: a literal beyond the double range reads as Infinity,
\* a property that is not there reads as undefined.
ParseValue(j) ==
    CASE j.k = "big" -> Inf
      [] j.k = "absent" -> Undef
      [] OTHER -> j

StringifyTask(task) == [f \in Fields |-> StringifyValue(task[f])]
ParseTask(obj) == [f \in Fields |-> ParseValue(obj[f])]

\* JSON.stringify(tasks) (the indentation of the export does not change the tokens)
Stringify(ts) == ArrayText([i \in 1 .. Len(ts) |-> StringifyTask(ts[i])])

\* JSON.parse of an array text
ParseItems(text) == [i \in 1 .. Len(text.items) |-> ParseTask(text.items[i])]

(***************************************************************************)
(* The state.                                                              *)
(*   phase      where the page is: "start" (script not yet run), "dead"    *)
(*              (the script's top level threw at line 4: `tasks` is never  *)
(*              initialised, no listener or timer is registered),          *)
(*              "loaded" (script run, DOMContentLoaded pending), "ready",  *)
(*              "closed" (page unloaded)                                   *)
(*   tasks      the global `tasks`                                         *)
(*   editingId  the global `currentEditingTaskId`                          *)
(*   storage    localStorage's 'tasks' item, a JSON text                   *)
(*   cards      the .task-card elements of #tasksContainer, in order: the  *)
(*              id attribute without its "task-" prefix, and the text of   *)
(*              .progress-text                                             *)
(*   now        the clock Date reads, in milliseconds                      *)
(*   reads      the texts of the files a FileReader is still reading       *)
(*   download   the text of the last exported file                         *)
(*   exported   the value of `tasks` that exportData serialised            *)
(*   issued     the ids addTask has assigned since the script started      *)
(*   fails      how many localStorage writes have thrown                   *)
(*   ev         the handler that ran last and what it reported (its alert  *)
(*              or console line)                                           *)
(***************************************************************************)
VARIABLES phase, tasks, editingId, storage, cards, now, reads, download,
          exported, issued, fails, ev

vars == << phase, tasks, editingId, storage, cards, now, reads, download,
           exported, issued, fails, ev >>

\* w: "saved" (setItem returned), "failed" (setItem threw, saveTasks warned),
\* "none" (the handler wrote nothing)
Event(op, out, w) == [op |-> op, out |-> out, w |-> w]

\* A task object as addTask builds it and as a file or a snapshot holds it.
Task(id, name, target, current, created, modified) ==
    [id |-> id, name |-> name, target |-> target, current |-> current,
     createdAt |-> created, lastModified |-> modified]

\* A snapshot an earlier session of the program left in localStorage.
SavedTask == Task(Num(1), Str("A"), Num(2), Num(1), ISOString(1), ISOString(1))

StoredAtStart ==
    {NoText, Garbage, Stringify(<< >>), Stringify(<< SavedTask >>)}

(***************************************************************************)
(* The files the user may pick for import.                                 *)
(***************************************************************************)
Rec(id, name, target, current) ==
    Task(id, name, target, current, ISOString(1), ISOString(1))

\* two well-formed records
GoodFile == ArrayText(<< Rec(Num(5), Str("B"), Num(1), Num(0)),
                         Rec(Num(4), Str("A"), Num(2), Num(1)) >>)
\* well-formed for the import's test, but current > target, a repeated id
\* and an id that is no number
LooseFile == ArrayText(<< Rec(Num(4), Str("A"), Num(2), Num(3)),
                          Rec(Num(4), Str("B"), Num(1), Num(0)),
                          Rec(Str("x"), Str("A"), Num(1), Num(1)) >>)
\* a timestamp written as the number literal 1e999
HugeFile == ArrayText(<< Task(Num(4), Str("A"), Num(2), Num(1), Big, ISOString(1)) >>)
\* a good record followed by one without a name
NoNameFile == ArrayText(<< Rec(Num(5), Str("B"), Num(1), Num(0)),
                           Rec(Num(4), Absent, Num(2), Num(1)) >>)
\* a record whose target is a string, after a good one
TextTargetFile == ArrayText(<< Rec(Num(5), Str("B"), Num(1), Num(0)),
                               Rec(Num(4), Str("A"), Str("2"), Num(1)) >>)
\* a record whose id is 0, and one whose current is null
ZeroIdFile == ArrayText(<< Rec(Num(0), Str("A"), Num(2), Num(1)) >>)
NullCurrentFile == ArrayText(<< Rec(Num(4), Str("A"), Num(2), Null) >>)

Files == {Garbage, ObjectText, ArrayText(<< >>), GoodFile, LooseFile, HugeFile,
          NoNameFile, TextTargetFile, ZeroIdFile, NullCurrentFile}

(***************************************************************************)
(* What the user may type into the forms, and pass to updateProgress.      *)
(***************************************************************************)
\* the add form: << name, target >>
AddForms == { << "", "2" >>, << " ", "2" >>, << " A", "" >>, << " A", "0" >>,
              << " A", "-1" >>, << " A", "1.5" >>, << " A", "2" >> }
\* the edit form: << name, current, target >>
EditForms == { << "", "0", "2" >>, << "B ", "", "2" >>, << "B ", "0", "" >>,
               << "B ", "0", "0" >>, << "B ", "-1", "2" >>, << "B ", "3", "2" >>,
               << "B ", "1", "2" >>, << "B ", "0", "1.5" >>, << "B ", "2x", "2" >> }
Deltas == {-3, -1, 1, 3}

(***************************************************************************)
(* Helpers of the handlers.                                                *)
(***************************************************************************)
\* tasks.findIndex(t => t.id === id), counted from 1; 0 when there is none
FindIndex(ts, id) ==
    IF \E i \in 1 .. Len(ts) : StrictEq(ts[i].id, id)
    THEN CHOOSE i \in 1 .. Len(ts) :
            /\ StrictEq(ts[i].id, id)
            /\ \A j \in 1 .. (i - 1) : ~StrictEq(ts[j].id, id)
    ELSE 0

\* renderTasks: one card per task, in order
CardOf(task) ==
    [id |-> ToStr(task.id),
     text |-> "(" \o ToStr(task.current) \o " / " \o ToStr(task.target) \o ")"]

RenderTasks(ts) == [i \in 1 .. Len(ts) |-> CardOf(ts[i])]

\* The argument the inline handler of a card passes: onclick="f(${task.id})"
\* evaluates the id's text as an expression.  A text that is no number and
\* not Infinity is an unbound identifier: evaluating it throws ("nan" here)
\* and the function is not called.
ClickArg(card) ==
    CASE card.id = "Infinity" -> Inf
      [] OTHER -> ParseInt(card.id)

\* document.getElementById(`task-${id}`): the first card with that id, 0 if none
CardIndex(cs, id) ==
    IF \E i \in 1 .. Len(cs) : cs[i].id = ToStr(id)
    THEN CHOOSE i \in 1 .. Len(cs) :
            /\ cs[i].id = ToStr(id)
            /\ \A j \in 1 .. (i - 1) : cs[j].id # ToStr(id)
    ELSE 0

\* saveTasks: localStorage.setItem('tasks', JSON.stringify(tasks)); when setItem
\* throws (ok = FALSE) the item keeps its value
SaveTasks(ts, ok) == IF ok THEN Stringify(ts) ELSE storage

\* a write may throw while the model's budget of failures lasts
WriteOutcomes == IF fails < MaxFail THEN BOOLEAN ELSE {TRUE}
Count(ok) == IF ok THEN fails ELSE fails + 1

Remove(seq, i) == [j \in 1 .. (Len(seq) - 1) |-> IF j < i THEN seq[j] ELSE seq[j + 1]]

\* the card at position i dropped at position j
Move(seq, i, j) ==
    LET rest == Remove(seq, i)
    IN  [k \in 1 .. Len(seq) |->
            IF k < j THEN rest[k] ELSE IF k = j THEN seq[i] ELSE rest[k - 1]]

Init ==
    /\ phase = "start"
    /\ tasks = << >>
    /\ editingId = Null
    /\ storage \in StoredAtStart
    /\ cards = << >>
    /\ now = 2
    /\ reads = {}
    /\ download = NoText
    /\ exported = << >>
    /\ issued = {}
    /\ fails = 0
    /\ ev = Event("none", "", "none")

Written(ok) == IF ok THEN "saved" ELSE "failed"

(***************************************************************************)
(* Start of the page.                                                      *)
(***************************************************************************)
\* line 4, then loadTasks() at line 420: JSON.parse(getItem('tasks')) || []
LoadTasks(text) == IF text.t = "array" THEN ParseItems(text) ELSE << >>

\* The top level of the script.  JSON.parse at line 4 is outside any try: on
\* a text that is no JSON it throws, the script ends there, `tasks` stays
\* uninitialised and lines 8-420 (listeners, timer, loadTasks) never run.
ScriptLoad ==
    /\ phase = "start"
    /\ IF storage.t = "garbage"
       THEN /\ phase' = "dead"
            /\ ev' = Event("script", "uncaught SyntaxError", "none")
            /\ UNCHANGED tasks
       ELSE /\ phase' = "loaded"
            /\ tasks' = LoadTasks(storage)
            /\ ev' = Event("script", "loaded", "none")
    /\ UNCHANGED << editingId, storage, cards, now, reads, download, exported,
                    issued, fails >>

\* lines 8-12: renderTasks(); initializeSortable()
DOMContentLoaded ==
    /\ phase = "loaded"
    /\ phase' = "ready"
    /\ cards' = RenderTasks(tasks)
    /\ ev' = Event("domready", "initialized", "none")
    /\ UNCHANGED << tasks, editingId, storage, now, reads, download, exported,
                    issued, fails >>

\* The clock moves on between two handlers, or does not.
Tick ==
    /\ phase # "closed"
    /\ now < MaxNow
    /\ now' = now + 1
    /\ ev' = Event("tick", "", "none")
    /\ UNCHANGED << phase, tasks, editingId, storage, cards, reads, download,
                    exported, issued, fails >>

(***************************************************************************)
(* The handlers.                                                           *)
(***************************************************************************)
\* addTask's test of its input (line 129)
AddRejects(taskName, taskTarget) ==
    ~Truthy(Str(taskName)) \/ ~Truthy(taskTarget) \/ Less(taskTarget, Num(1))

\* the object addTask builds (lines 135-142)
NewTask(taskName, taskTarget) ==
    Task(Num(now), Str(taskName), taskTarget, Num(0), ISOString(now), ISOString(now))

AddTask(nameText, targetText, ok) ==
    /\ phase = "ready"
    /\ LET taskName == Trim(nameText)
           taskTarget == ParseInt(targetText)
       IN  IF AddRejects(taskName, taskTarget)
           THEN /\ ok
                /\ ev' = Event("add", "invalid", "none")
                /\ UNCHANGED << tasks, storage, cards, issued, fails >>
           ELSE /\ Len(tasks) < MaxTasks
                /\ tasks' = Append(tasks, NewTask(taskName, taskTarget))
                /\ storage' = SaveTasks(tasks', ok)
                /\ cards' = RenderTasks(tasks')
                /\ issued' = issued \cup {now}
                /\ fails' = Count(ok)
                /\ ev' = Event("add", "added", Written(ok))
    /\ UNCHANGED << phase, editingId, now, reads, download, exported >>

\* a progress update without the lower limit
ProgressedNoFloor(task, change) ==
    [task EXCEPT
        !.current = MathMin(Plus(task.current, Num(change)), task.target),
        !.lastModified = ISOString(now)]

\* lines 167-170
Progressed(task, change) ==
    [task EXCEPT
        !.current = MathMax(Num(0), MathMin(Plus(task.current, Num(change)), task.target)),
        !.lastModified = ISOString(now)]

\* lines 175-186: the card of the task, if there is one, shows the new numbers
CardProgress(cs, task) ==
    LET c == CardIndex(cs, task.id)
    IN  IF c = 0 THEN cs ELSE [cs EXCEPT ![c].text = CardOf(task).text]

UpdateProgress(taskId, change, ok) ==
    /\ phase = "ready"
    /\ LET i == FindIndex(tasks, taskId)
       IN  IF i = 0
           THEN /\ ok
                /\ ev' = Event("progress", "no task", "none")
                /\ UNCHANGED << tasks, storage, cards, fails >>
           ELSE /\ tasks' = [tasks EXCEPT ![i] = Progressed(tasks[i], change)]
                /\ storage' = SaveTasks(tasks', ok)
                /\ cards' = CardProgress(cards, tasks'[i])
                /\ fails' = Count(ok)
                /\ ev' = Event("progress", "updated", Written(ok))
    /\ UNCHANGED << phase, editingId, now, reads, download, exported, issued >>

\* openEditTaskModal (lines 72-83)
OpenEditTaskModal(taskId) ==
    /\ phase = "ready"
    /\ IF FindIndex(tasks, taskId) = 0
       THEN /\ ev' = Event("openEdit", "no task", "none")
            /\ UNCHANGED editingId
       ELSE /\ editingId' = taskId
            /\ ev' = Event("openEdit", "shown", "none")
    /\ UNCHANGED << phase, tasks, storage, cards, now, reads, download, exported,
                    issued, fails >>

\* updateTask's test of the form (line 105)
EditRejects(newName, newCurrent, newTarget) ==
    \/ ~Truthy(Str(newName))
    \/ newCurrent.k = "nan"
    \/ newTarget.k = "nan"
    \/ Less(newTarget, Num(1))
    \/ Less(newCurrent, Num(0))
    \/ Less(newTarget, newCurrent)

\* lines 110-113
Edited(task, newName, newCurrent, newTarget) ==
    [task EXCEPT !.name = Str(newName), !.current = newCurrent,
                 !.target = newTarget, !.lastModified = ISOString(now)]

UpdateTask(nameText, currentText, targetText, ok) ==
    /\ phase = "ready"
    /\ LET i == IF editingId = Null THEN 0 ELSE FindIndex(tasks, editingId)
           newName == Trim(nameText)
           newCurrent == ParseInt(currentText)
           newTarget == ParseInt(targetText)
       IN  IF i = 0
           THEN /\ ok
                /\ ev' = Event("edit", "no task", "none")
                /\ UNCHANGED << tasks, storage, cards, fails >>
           ELSE IF EditRejects(newName, newCurrent, newTarget)
           THEN /\ ok
                /\ ev' = Event("edit", "invalid", "none")
                /\ UNCHANGED << tasks, storage, cards, fails >>
           ELSE /\ tasks' = [tasks EXCEPT
                                ![i] = Edited(tasks[i], newName, newCurrent, newTarget)]
                /\ storage' = SaveTasks(tasks', ok)
                /\ cards' = RenderTasks(tasks')
                /\ fails' = Count(ok)
                /\ ev' = Event("edit", "edited", Written(ok))
    /\ UNCHANGED << phase, editingId, now, reads, download, exported, issued >>

\* a delete that puts the record back when the write fails
DeleteTaskRolledBack(taskId, accept, ok) ==
    /\ phase = "ready"
    /\ LET i == FindIndex(tasks, taskId)
       IN  IF ~accept \/ i = 0
           THEN /\ ok
                /\ ev' = Event("delete", IF accept THEN "no task" ELSE "declined", "none")
                /\ UNCHANGED << tasks, storage, cards, fails >>
           ELSE /\ tasks' = IF ok THEN Remove(tasks, i) ELSE tasks
                /\ storage' = SaveTasks(tasks', ok)
                /\ cards' = RenderTasks(tasks')
                /\ fails' = Count(ok)
                /\ ev' = Event("delete", "deleted", Written(ok))
    /\ UNCHANGED << phase, editingId, now, reads, download, exported, issued >>

\* deleteTask (lines 196-207); accept is the answer to confirm()
DeleteTask(taskId, accept, ok) ==
    /\ phase = "ready"
    /\ LET i == FindIndex(tasks, taskId)
       IN  IF ~accept \/ i = 0
           THEN /\ ok
                /\ ev' = Event("delete", IF accept THEN "no task" ELSE "declined", "none")
                /\ UNCHANGED << tasks, storage, cards, fails >>
           ELSE /\ tasks' = Remove(tasks, i)
                /\ storage' = SaveTasks(tasks', ok)
                /\ cards' = RenderTasks(tasks')
                /\ fails' = Count(ok)
                /\ ev' = Event("delete", "deleted", Written(ok))
    /\ UNCHANGED << phase, editingId, now, reads, download, exported, issued >>

\* onEnd's loop (lines 24-33): the tasks the cards name, in the cards' order
RECURSIVE ReorderedTasks(_, _)
ReorderedTasks(cs, ts) ==
    IF cs = << >>
    THEN << >>
    ELSE LET i == FindIndex(ts, ParseInt(Head(cs).id))
         IN  (IF i = 0 THEN << >> ELSE << ts[i] >>) \o ReorderedTasks(Tail(cs), ts)

\* A drag: the sortable list moves card i to position j, then calls onEnd
\* (lines 23-37), which does not render.
DragEnd(i, j, ok) ==
    /\ phase = "ready"
    /\ i \in DOMAIN cards
    /\ j \in DOMAIN cards
    /\ cards' = Move(cards, i, j)
    /\ tasks' = ReorderedTasks(cards', tasks)
    /\ storage' = SaveTasks(tasks', ok)
    /\ fails' = Count(ok)
    /\ ev' = Event("drag", "reordered", Written(ok))
    /\ UNCHANGED << phase, editingId, now, reads, download, exported, issued >>

\* A button of a card whose id text is no expression: the inline handler throws
\* a ReferenceError before it calls anything.
ClickThrows(c) ==
    /\ phase = "ready"
    /\ c \in DOMAIN cards
    /\ ClickArg(cards[c]).k = "nan"
    /\ ev' = Event("click", "ReferenceError", "none")
    /\ UNCHANGED << phase, tasks, editingId, storage, cards, now, reads, download,
                    exported, issued, fails >>

(***************************************************************************)
(* Import, export, clear.                                                  *)
(***************************************************************************)
\* handleFileImport (lines 271-310): a file is picked and its read starts
ImportSelect(f) ==
    /\ phase = "ready"
    /\ Cardinality(reads) < MaxReads
    /\ f \notin reads
    /\ reads' = reads \cup {f}
    /\ ev' = Event("select", "reading", "none")
    /\ UNCHANGED << phase, tasks, editingId, storage, cards, now, download,
                    exported, issued, fails >>

\* a validation that looks at the first record only
IsValidFirstOnly(importedTasks) ==
    /\ Truthy(importedTasks[1].id)
    /\ Truthy(importedTasks[1].name)
    /\ TypeofNumber(importedTasks[1].target)
    /\ TypeofNumber(importedTasks[1].current)

\* lines 282-284
IsValid(importedTasks) ==
    \A i \in 1 .. Len(importedTasks) :
        /\ Truthy(importedTasks[i].id)
        /\ Truthy(importedTasks[i].name)
        /\ TypeofNumber(importedTasks[i].target)
        /\ TypeofNumber(importedTasks[i].current)

\* what reader.onload reports for a text, before any confirm()
ImportVerdict(f) ==
    CASE f.t \in {"garbage", "none"} -> "parse error"
      [] f.t # "array" \/ Len(f.items) = 0 -> "no tasks"
      [] ~IsValid(ParseItems(f)) -> "invalid format"
      [] OTHER -> "valid"

\* an import that adds the payload's records to the present ones
ImportedAppended(f) == tasks \o ParseItems(f)

\* line 288: tasks = importedTasks
ImportedTasks(f) == ParseItems(f)

\* reader.onload (lines 276-304); accept is the answer to confirm()
ImportOnload(f, accept, ok) ==
    /\ phase = "ready"
    /\ f \in reads
    /\ reads' = reads \ {f}
    /\ IF ImportVerdict(f) = "valid" /\ accept
       THEN /\ tasks' = ImportedTasks(f)
            /\ storage' = SaveTasks(tasks', ok)
            /\ cards' = RenderTasks(tasks')
            /\ fails' = Count(ok)
            /\ ev' = Event("import", "imported", Written(ok))
       ELSE /\ ok
            /\ (ImportVerdict(f) = "valid" \/ accept)
            /\ ev' = Event("import", IF ImportVerdict(f) = "valid" THEN "declined"
                                     ELSE ImportVerdict(f), "none")
            /\ UNCHANGED << tasks, storage, cards, fails >>
    /\ UNCHANGED << phase, editingId, now, download, exported, issued >>

\* exportData (lines 242-258)
ExportData ==
    /\ phase = "ready"
    /\ download' = Stringify(tasks)
    /\ exported' = tasks
    /\ ev' = Event("export", "exported", "none")
    /\ UNCHANGED << phase, tasks, editingId, storage, cards, now, reads, issued,
                    fails >>

\* the exported file is picked for import
ImportSelectDownload ==
    /\ download.t # "none"
    /\ ImportSelect(download)

\* a clear-all that asks once only
ClearAllDataAskedOnce(first, second, ok) ==
    /\ phase = "ready"
    /\ IF first
       THEN /\ tasks' = << >>
            /\ storage' = SaveTasks(tasks', ok)
            /\ cards' = RenderTasks(tasks')
            /\ fails' = Count(ok)
            /\ ev' = Event("clear", "cleared", Written(ok))
       ELSE /\ ok
            /\ ~second
            /\ ev' = Event("clear", "declined", "none")
            /\ UNCHANGED << tasks, storage, cards, fails >>
    /\ UNCHANGED << phase, editingId, now, reads, download, exported, issued >>

\* clearAllData (lines 315-325); first and second are the answers to confirm()
ClearAllData(first, second, ok) ==
    /\ phase = "ready"
    /\ IF first /\ second
       THEN /\ tasks' = << >>
            /\ storage' = SaveTasks(tasks', ok)
            /\ cards' = RenderTasks(tasks')
            /\ fails' = Count(ok)
            /\ ev' = Event("clear", "cleared", Written(ok))
       ELSE /\ ok
            /\ (first \/ ~second)
            /\ ev' = Event("clear", "declined", "none")
            /\ UNCHANGED << tasks, storage, cards, fails >>
    /\ UNCHANGED << phase, editingId, now, reads, download, exported, issued >>

(***************************************************************************)
(* Timer and teardown.                                                     *)
(***************************************************************************)
\* lines 383-387 and 401-405: if (tasks.length > 0) saveTasks()
SaveIfAny(op, ok) ==
    IF Len(tasks) > 0
    THEN /\ storage' = SaveTasks(tasks, ok)
         /\ fails' = Count(ok)
         /\ ev' = Event(op, "saved", Written(ok))
    ELSE /\ ok
         /\ ev' = Event(op, "skipped", "none")
         /\ UNCHANGED << storage, fails >>

AutoSave(ok) ==
    /\ phase \in {"loaded", "ready"}
    /\ SaveIfAny("timer", ok)
    /\ UNCHANGED << phase, tasks, editingId, cards, now, reads, download, exported,
                    issued >>

BeforeUnload(ok) ==
    /\ phase \in {"loaded", "ready"}
    /\ phase' = "closed"
    /\ SaveIfAny("unload", ok)
    /\ UNCHANGED << tasks, editingId, cards, now, reads, download, exported, issued >>

(***************************************************************************)
(* The program: every handler, on every input of the sets above.           *)
(***************************************************************************)
\* the ids the buttons of the rendered cards pass to their handlers
ClickIds == {ClickArg(cards[c]) : c \in DOMAIN cards} \ {NaN}

Next ==
    \/ ScriptLoad
    \/ DOMContentLoaded
    \/ Tick
    \/ \E form \in AddForms, ok \in WriteOutcomes : AddTask(form[1], form[2], ok)
    \/ \E taskId \in ClickIds, change \in Deltas, ok \in WriteOutcomes :
          UpdateProgress(taskId, change, ok)
    \/ \E taskId \in ClickIds : OpenEditTaskModal(taskId)
    \/ \E form \in EditForms, ok \in WriteOutcomes :
          UpdateTask(form[1], form[2], form[3], ok)
    \/ \E taskId \in ClickIds, accept \in BOOLEAN, ok \in WriteOutcomes :
          DeleteTask(taskId, accept, ok)
    \/ \E c \in DOMAIN cards : ClickThrows(c)
    \/ \E i \in DOMAIN cards, j \in DOMAIN cards, ok \in WriteOutcomes :
          DragEnd(i, j, ok)
    \/ \E f \in Files : ImportSelect(f)
    \/ ImportSelectDownload
    \/ \E f \in reads, accept \in BOOLEAN, ok \in WriteOutcomes :
          ImportOnload(f, accept, ok)
    \/ ExportData
    \/ \E first \in BOOLEAN, second \in BOOLEAN, ok \in WriteOutcomes :
          ClearAllData(first, second, ok)
    \/ \E ok \in WriteOutcomes : AutoSave(ok)
    \/ \E ok \in WriteOutcomes : BeforeUnload(ok)

Spec == Init /\ [][Next]_vars

(***************************************************************************)
(* Sessions of the program small enough to be explored to the end: each    *)
(* takes some of the handlers and some of the inputs of Next.              *)
(***************************************************************************)
\* Adding, progress and editing; every write succeeds.
CrudForms == { << "", "2" >>, << " A", "1.5" >>, << " A", "2" >> }

NextCrud ==
    \/ ScriptLoad
    \/ DOMContentLoaded
    \/ Tick
    \/ \E form \in CrudForms : AddTask(form[1], form[2], TRUE)
    \/ \E taskId \in ClickIds, change \in Deltas : UpdateProgress(taskId, change, TRUE)
    \/ \E taskId \in ClickIds : OpenEditTaskModal(taskId)
    \/ \E form \in EditForms : UpdateTask(form[1], form[2], form[3], TRUE)
    \/ \E taskId \in ClickIds : DeleteTask(taskId, TRUE, TRUE)

SpecCrud == Init /\ [][NextCrud]_vars

\* Adding, progress and deleting; every write succeeds.
ProgressForms == { << " A", "1.5" >>, << " A", "2" >> }

NextProgress ==
    \/ ScriptLoad
    \/ DOMContentLoaded
    \/ Tick
    \/ \E form \in ProgressForms : AddTask(form[1], form[2], TRUE)
    \/ \E taskId \in ClickIds, change \in Deltas : UpdateProgress(taskId, change, TRUE)
    \/ \E taskId \in ClickIds : DeleteTask(taskId, TRUE, TRUE)

SpecProgress == Init /\ [][NextProgress]_vars

\* Import, with adding, progress and dragging around it; a write may fail.
ImportFiles == Files \ {HugeFile}

NextImport ==
    \/ ScriptLoad
    \/ DOMContentLoaded
    \/ Tick
    \/ AddTask(" A", "2", TRUE)
    \/ \E taskId \in ClickIds : UpdateProgress(taskId, 1, TRUE)
    \/ \E c \in DOMAIN cards : ClickThrows(c)
    \/ \E i \in DOMAIN cards, j \in DOMAIN cards : DragEnd(i, j, TRUE)
    \/ \E f \in ImportFiles : ImportSelect(f)
    \/ \E f \in reads, accept \in BOOLEAN, ok \in WriteOutcomes :
          ImportOnload(f, accept, ok)

SpecImport == Init /\ [][NextImport]_vars

\* Import of well-formed and of malformed files, with adding and deleting
\* between the choice of a file and the end of its read; a write may fail.
ReplaceFiles == ImportFiles \ {LooseFile}

NextReplace ==
    \/ ScriptLoad
    \/ DOMContentLoaded
    \/ Tick
    \/ AddTask(" A", "2", TRUE)
    \/ \E taskId \in ClickIds : DeleteTask(taskId, TRUE, TRUE)
    \/ \E f \in ReplaceFiles : ImportSelect(f)
    \/ \E f \in reads, accept \in BOOLEAN, ok \in WriteOutcomes :
          ImportOnload(f, accept, ok)

SpecReplace == Init /\ [][NextReplace]_vars

\* Export and the import of what was exported.
NextExport ==
    \/ ScriptLoad
    \/ DOMContentLoaded
    \/ Tick
    \/ AddTask(" A", "2", TRUE)
    \/ \E taskId \in ClickIds : UpdateProgress(taskId, 1, TRUE)
    \/ ExportData
    \/ ImportSelect(HugeFile)
    \/ ImportSelectDownload
    \/ \E f \in reads, accept \in BOOLEAN : ImportOnload(f, accept, TRUE)

SpecExport == Init /\ [][NextExport]_vars

\* The operations that ask before they destroy, each answered either way,
\* with adding between them; a write may fail.
NextConfirm ==
    \/ ScriptLoad
    \/ DOMContentLoaded
    \/ Tick
    \/ AddTask(" A", "2", TRUE)
    \/ \E taskId \in ClickIds, accept \in BOOLEAN, ok \in WriteOutcomes :
          DeleteTask(taskId, accept, ok)
    \/ \E first \in BOOLEAN, second \in BOOLEAN, ok \in WriteOutcomes :
          ClearAllData(first, second, ok)
    \/ ImportSelect(GoodFile)
    \/ \E f \in reads, accept \in BOOLEAN, ok \in WriteOutcomes :
          ImportOnload(f, accept, ok)

SpecConfirm == Init /\ [][NextConfirm]_vars

\* a file of one well-formed record
OneFile == ArrayText(<< Rec(Num(5), Str("B"), Num(1), Num(0)) >>)

\* Every operation that changes the task sequence, each with a write that may
\* fail, all within one reading of the clock.
NextFail ==
    \/ ScriptLoad
    \/ DOMContentLoaded
    \/ \E ok \in WriteOutcomes : AddTask(" A", "1", ok)
    \/ \E taskId \in ClickIds, ok \in WriteOutcomes : UpdateProgress(taskId, 1, ok)
    \/ \E taskId \in ClickIds : OpenEditTaskModal(taskId)
    \/ \E ok \in WriteOutcomes : UpdateTask(" A", "1", "1", ok)
    \/ \E taskId \in ClickIds, ok \in WriteOutcomes : DeleteTask(taskId, TRUE, ok)
    \/ \E i \in DOMAIN cards, ok \in WriteOutcomes : DragEnd(i, 1, ok)
    \/ ImportSelect(OneFile)
    \/ \E f \in reads, ok \in WriteOutcomes : ImportOnload(f, TRUE, ok)
    \/ \E ok \in WriteOutcomes : ClearAllData(TRUE, TRUE, ok)

SpecFail == Init /\ [][NextFail]_vars

\* The timer and the teardown after operations whose write may fail.
NextFlush ==
    \/ ScriptLoad
    \/ DOMContentLoaded
    \/ Tick
    \/ \E ok \in WriteOutcomes : AddTask(" A", "2", ok)
    \/ \E taskId \in ClickIds, ok \in WriteOutcomes : DeleteTask(taskId, TRUE, ok)
    \/ \E ok \in WriteOutcomes : ClearAllData(TRUE, TRUE, ok)
    \/ \E ok \in WriteOutcomes : AutoSave(ok)
    \/ \E ok \in WriteOutcomes : BeforeUnload(ok)

SpecFlush == Init /\ [][NextFlush]_vars

(***************************************************************************)
(* Properties.                                                             *)
(***************************************************************************)
\* the file whose read completes in this step
LoadedFile == CHOOSE f \in reads : f \notin reads'

IsIntegerText(s) == \E n \in ParseRange : ToString(n) = s
IntegerOf(s) == CHOOSE n \in ParseRange : ToString(n) = s

\* C1: in every reachable state every record of the task sequence has numbers
\* for current and target, with 0 <= current <= target.
C1_CurrentWithinTarget ==
    \A i \in 1 .. Len(tasks) :
        /\ tasks[i].current.k = "num"
        /\ tasks[i].target.k = "num"
        /\ 0 <= tasks[i].current.n
        /\ tasks[i].current.n <= tasks[i].target.n

\* C2: in every reachable state no two records of the task sequence share an id.
C2_UniqueIds ==
    \A i \in 1 .. Len(tasks) : \A j \in 1 .. Len(tasks) :
        i # j => tasks[i].id # tasks[j].id

\* C3: the id a successful add assigns is strictly greater than every id an
\* earlier add of the session assigned.
C3_FreshIds ==
    [][(ev'.op = "add" /\ ev'.out = "added")
          => \A earlier \in issued : earlier < tasks'[Len(tasks')].id.n]_vars

\* C4: when a file that export wrote is imported and the replacement is
\* confirmed, the task sequence is the one that was exported.
C4_RoundTrip ==
    [][(ev'.op = "import" /\ ev'.out = "imported" /\ LoadedFile = download)
          => tasks' = exported]_vars

\* C5: when the script has run on a store that holds no snapshot or a text that
\* is no JSON, the task sequence is empty and the page goes on to initialise.
C5_StartSurvivesBadSnapshot ==
    (ev.op = "script" /\ storage.t \in {"none", "garbage"})
        => (phase = "loaded" /\ tasks = << >>)

\* the inputs C6 says updateTask refuses: an empty name, a current or a target
\* that is no integer, target < 1, current < 0, current > target
RefusedEdit(form) ==
    \/ Trim(form[1]) = ""
    \/ ~IsIntegerText(form[2])
    \/ ~IsIntegerText(form[3])
    \/ IntegerOf(form[3]) < 1
    \/ IntegerOf(form[2]) < 0
    \/ IntegerOf(form[2]) > IntegerOf(form[3])

\* C6: an edit submitted with such an input changes no record (name, current,
\* target and lastModified of the edited one included) and not the snapshot.
C6_RefusedEditChangesNothing ==
    [][ev'.op = "edit" => \A form \in EditForms, ok \in BOOLEAN :
          (/\ UpdateTask(form[1], form[2], form[3], ok)
           /\ editingId # Null
           /\ FindIndex(tasks, editingId) # 0
           /\ RefusedEdit(form))
              => (tasks' = tasks /\ storage' = storage)]_vars

\* a JSON token that reads as a truthy value, and one that reads as a number
TruthyToken(j) == (j.k = "num" /\ j.n # 0) \/ (j.k = "str" /\ j.s # "") \/ j.k = "big"
NumberToken(j) == j.k \in {"num", "big"}

\* the payloads C7 says the import refuses
RefusedPayload(f) ==
    \/ f.t # "array"
    \/ Len(f.items) = 0
    \/ \E i \in 1 .. Len(f.items) :
          \/ ~TruthyToken(f.items[i].id)
          \/ ~TruthyToken(f.items[i].name)
          \/ ~NumberToken(f.items[i].target)
          \/ ~NumberToken(f.items[i].current)

\* C7: the import of such a payload leaves the task sequence and the stored
\* snapshot as they were, whatever the answer to a confirmation would be.
C7_RefusedImportChangesNothing ==
    [][(ev'.op = "import" /\ RefusedPayload(LoadedFile))
          => (tasks' = tasks /\ storage' = storage /\ ev'.out # "imported")]_vars

C7_Witness ==
    /\ ev.op = "import"
    /\ ev.out = "invalid format"
    /\ Len(tasks) > 0
    /\ storage = Stringify(tasks)

\* C8, as stated: after a confirmed import of a well-formed payload the task
\* sequence is the payload's list and the stored snapshot is that list too.
C8_ImportReplacesAndStores ==
    [][(ev'.op = "import" /\ ev'.out = "imported")
          => (/\ tasks' = ParseItems(LoadedFile)
              /\ storage' = Stringify(ParseItems(LoadedFile)))]_vars

\* C8, amended: the task sequence is the payload's list; the stored snapshot is
\* its serialisation when the write succeeded and is unchanged when it failed.
C8_ImportReplaces ==
    [][(ev'.op = "import" /\ ev'.out = "imported")
          => (/\ tasks' = ParseItems(LoadedFile)
              /\ (ev'.w = "saved" => storage' = Stringify(ParseItems(LoadedFile)))
              /\ (ev'.w = "failed" => storage' = storage))]_vars

C8_Witness ==
    /\ ev = Event("import", "imported", "saved")
    /\ tasks = ParseItems(GoodFile)
    /\ storage = Stringify(ParseItems(GoodFile))
    /\ issued # {}

\* the ids the reorder handler reads off the cards after the drop
DroppedIds == [k \in 1 .. Len(cards') |-> ParseInt(cards'[k].id)]
Listed(id) == \E k \in 1 .. Len(DroppedIds) : StrictEq(id, DroppedIds[k])
Occurs(task, ts) == \E m \in 1 .. Len(ts) : ts[m] = task

\* the ids of the list that match a record, in the list's order
RECURSIVE MatchedIds(_)
MatchedIds(ids) ==
    IF ids = << >>
    THEN << >>
    ELSE (IF \E i \in 1 .. Len(tasks) : StrictEq(tasks[i].id, Head(ids))
          THEN << Head(ids) >> ELSE << >>) \o MatchedIds(Tail(ids))

\* C9: after a drag whose id list omits an existing id, the task sequence holds
\* exactly the records whose ids the list names, unchanged and in the list's order.
C9_ReorderKeepsListed ==
    [][(ev'.op = "drag" /\ \E i \in 1 .. Len(tasks) : ~Listed(tasks[i].id))
          => (/\ \A m \in 1 .. Len(tasks') :
                    Occurs(tasks'[m], tasks) /\ Listed(tasks'[m].id)
              /\ \A i \in 1 .. Len(tasks) :
                    Listed(tasks[i].id) <=> Occurs(tasks[i], tasks')
              /\ [m \in 1 .. Len(tasks') |-> tasks'[m].id] = MatchedIds(DroppedIds))]_vars

\* clamp(x, lo, hi)
Clamp(x, lo, hi) == IF x < lo THEN lo ELSE IF x > hi THEN hi ELSE x

\* C10: updateProgress(id, delta) on an existing record sets its current to
\* clamp(current + delta, 0, target) and leaves its other fields but
\* lastModified, every other record and the order as they were.
C10_ProgressClamps ==
    [][ev'.op = "progress" => \A taskId \in ClickIds, change \in Deltas :
          (/\ FindIndex(tasks, taskId) # 0
           /\ UpdateProgress(taskId, change, ev'.w # "failed"))
              => LET i == FindIndex(tasks, taskId)
                 IN  /\ Len(tasks') = Len(tasks)
                     /\ \A j \in 1 .. Len(tasks) : j # i => tasks'[j] = tasks[j]
                     /\ tasks'[i].current =
                           Num(Clamp(tasks[i].current.n + change, 0, tasks[i].target.n))
                     /\ \A f \in Fields \ {"current", "lastModified"} :
                           tasks'[i][f] = tasks[i][f]]_vars

C10_Witness ==
    /\ ev.op = "progress"
    /\ ev.out = "updated"
    /\ Len(tasks) = 2
    /\ tasks[2].current = tasks[2].target
    /\ tasks[1].current = Num(1)

\* a step of delete, import or clear-all in which a confirmation is declined
DeclinedStep ==
    \/ \E taskId \in ClickIds, ok \in BOOLEAN : DeleteTask(taskId, FALSE, ok)
    \/ \E f \in reads, ok \in BOOLEAN :
          ImportVerdict(f) = "valid" /\ ImportOnload(f, FALSE, ok)
    \/ \E first \in BOOLEAN, second \in BOOLEAN, ok \in BOOLEAN :
          ~(first /\ second) /\ ClearAllData(first, second, ok)

\* a step of clear-all in which both confirmations are accepted; ok tells
\* whether the write to storage succeeds
ClearedStep(ok) == ClearAllData(TRUE, TRUE, ok)

\* C11, as stated: a delete, an import or a clear-all with a declined
\* confirmation leaves the task sequence and the stored snapshot as they were;
\* a clear-all with both confirmations accepted leaves the sequence empty and
\* the stored snapshot the empty array.
C11_ConfirmedOnlyAndCleared ==
    [][ev'.op \in {"delete", "import", "clear"} =>
          /\ DeclinedStep => (tasks' = tasks /\ storage' = storage)
          /\ \A ok \in BOOLEAN :
                ClearedStep(ok) => (tasks' = << >> /\ storage' = Stringify(<< >>))]_vars

\* C11, amended: as above, but the stored snapshot is the empty array when the
\* write succeeded and is unchanged when it failed.
C11_ConfirmedOnly ==
    [][ev'.op \in {"delete", "import", "clear"} =>
          /\ DeclinedStep => (tasks' = tasks /\ storage' = storage)
          /\ ClearedStep(TRUE) => (tasks' = << >> /\ storage' = Stringify(<< >>))
          /\ ClearedStep(FALSE) => (tasks' = << >> /\ storage' = storage)]_vars

C11_Witness ==
    /\ ev = Event("clear", "cleared", "saved")
    /\ tasks = << >>
    /\ storage = Stringify(<< >>)
    /\ cards = << >>
    /\ issued # {}
    /\ fails = 1

\* the inputs C12 says addTask rejects: a name that is empty after trimming, a
\* target that is no positive integer
RefusedAdd(form) ==
    \/ Trim(form[1]) = ""
    \/ ~IsIntegerText(form[2])
    \/ IntegerOf(form[2]) < 1

\* C12: an add submitted with such an input appends no record and leaves the
\* task sequence and the stored snapshot as they were.
C12_RefusedAddChangesNothing ==
    [][ev'.op = "add" => \A form \in AddForms, ok \in BOOLEAN :
          (AddTask(form[1], form[2], ok) /\ RefusedAdd(form))
              => (tasks' = tasks /\ storage' = storage)]_vars

\* C13: a successful add appends one record at the end of the task sequence,
\* with current 0, the given (trimmed) name and the given target, and leaves
\* the records that were there, and their order, as they were.
C13_AddAppendsOne ==
    [][(ev'.op = "add" /\ ev'.out = "added") => \A form \in AddForms, ok \in BOOLEAN :
          AddTask(form[1], form[2], ok)
              => (/\ Len(tasks') = Len(tasks) + 1
                  /\ SubSeq(tasks', 1, Len(tasks)) = tasks
                  /\ tasks'[Len(tasks')].current = Num(0)
                  /\ tasks'[Len(tasks')].name = Str(Trim(form[1]))
                  /\ IsIntegerText(form[2])
                  /\ tasks'[Len(tasks')].target = Num(IntegerOf(form[2])))]_vars

\* what each mutation makes of the task sequence it finds in memory
MutationResult ==
    CASE ev'.op = "add" ->
            /\ Len(tasks') = Len(tasks) + 1
            /\ SubSeq(tasks', 1, Len(tasks)) = tasks
            /\ tasks'[Len(tasks')].id = Num(now)
            /\ tasks'[Len(tasks')].current = Num(0)
      [] ev'.op = "progress" ->
            \E i \in 1 .. Len(tasks), change \in Deltas :
                tasks' = [tasks EXCEPT
                            ![i].current = Num(Clamp(tasks[i].current.n + change, 0,
                                                     tasks[i].target.n)),
                            ![i].lastModified = ISOString(now)]
      [] ev'.op = "edit" ->
            \E i \in 1 .. Len(tasks), form \in { << " A", "1", "1" >> } \cup EditForms :
                /\ StrictEq(tasks[i].id, editingId)
                /\ tasks' = [tasks EXCEPT
                               ![i].name = Str(Trim(form[1])),
                               ![i].current = ParseInt(form[2]),
                               ![i].target = ParseInt(form[3]),
                               ![i].lastModified = ISOString(now)]
      [] ev'.op = "delete" -> \E i \in 1 .. Len(tasks) : tasks' = Remove(tasks, i)
      [] ev'.op = "drag" -> tasks' = ReorderedTasks(cards', tasks)
      [] ev'.op = "import" -> tasks' = ParseItems(LoadedFile)
      [] ev'.op = "clear" -> tasks' = << >>
      [] OTHER -> tasks' = tasks

\* C14: a mutation whose write to storage fails still leaves its result in the
\* task sequence, finishes its handler (the page is still ready, the cards
\* are rendered) and leaves the snapshot as it was; every later mutation
\* starts from the sequence in memory, whatever the snapshot holds.
C14_FailedWriteKeepsResult ==
    [][ev'.w \in {"saved", "failed"} =>
          /\ MutationResult
          /\ phase' = "ready"
          /\ ev'.op \in {"add", "edit", "delete", "import", "clear"}
                => cards' = RenderTasks(tasks')
          /\ ev'.w = "failed" => storage' = storage
          /\ ev'.w = "saved" => storage' = Stringify(tasks')]_vars

C14_Witness ==
    /\ ev = Event("progress", "updated", "saved")
    /\ fails = 1
    /\ Len(tasks) = 2
    /\ tasks[2].current = Num(1)
    /\ storage = Stringify(tasks)

\* C15: after an operation that changed the state and whose write succeeded,
\* the stored snapshot reads back as the task sequence in memory: the same
\* records with the same field values in the same order.
C15_SnapshotEqualsMemory ==
    [][(ev'.w = "saved" /\ ev'.op \notin {"timer", "unload"})
          => (storage'.t = "array" /\ ParseItems(storage') = tasks')]_vars

\* C16: when the timer fires or the teardown handler runs and no write fails,
\* the stored snapshot afterwards reads back as the task sequence in memory,
\* the empty sequence included.
C16_FlushBringsUpToDate ==
    [][(ev'.op \in {"timer", "unload"} /\ ev'.w # "failed")
          => LoadTasks(storage') = tasks']_vars

\* how often a record occurs in a sequence
Times(task, ts) == Cardinality({m \in 1 .. Len(ts) : ts[m] = task})

\* C17: after a drag the task sequence is a permutation of the sequence before
\* it: no record is lost and none occurs more often than it did.
C17_DragPermutes ==
    [][ev'.op = "drag"
          => (/\ Len(tasks') = Len(tasks)
              /\ \A i \in 1 .. Len(tasks) :
                    Times(tasks[i], tasks') = Times(tasks[i], tasks))]_vars

\* C18: once the page is initialised, after every operation the cards are, one
\* for one and in order, the cards of the records of the task sequence, each
\* showing its record's current and target.
C18_CardsShowTasks ==
    phase = "ready" => cards = RenderTasks(tasks)

====
